---- MODULE Spec2Model ----
(***************************************************************************)
(* Model of Pumedoro's name dictionary creator                             *)
(* (Code/pumedoro_dictionary_creator.py), of the classes that fetch from   *)
(* the PubMed server (Code/pubmed_name_fetcher.py, Code/NCBIExtractor.py,  *)
(* Code/pumex.py) and of the older name cache (Code/pmname.py).            *)
(*                                                                         *)
(* A Python str is a sequence of one-character strings, so that split,     *)
(* upper, lower, title, strip and the two regular expressions are computed *)
(* character by character as the interpreter computes them.  An optional   *)
(* str (the .text of an XML element, the return value of _get_family_name) *)
(* is a record [kind, text] with kind "str" or "None".  Every Author        *)
(* element holds a GivenName and a FamilyName element, as the fetchers     *)
(* write them (pubmed_name_fetcher.py, pumex.py); their text may be None.  *)
(***************************************************************************)
EXTENDS Integers, Sequences, FiniteSets, TLC

(***************************************************************************)
(* Bounds of the model.                                                    *)
(***************************************************************************)
\* number of space-separated tokens of a raw name string
MaxTokens == 3
\* number of Author elements in all the files of the folder together
MaxCorpus == 2
\* number of XML files in the folder
MaxFiles == 2
\* largest occurrence count the model lets an entry reach
MaxOcc == 2
\* number of countries in the list given to the fetcher
MaxCountries == 2
\* number of full extraction portions an ID list of the model fills
MaxPortions == 1

(***************************************************************************)
(* Characters and Python's str methods.                                    *)
(***************************************************************************)
LowerAZ ==
    <<"a", "b", "c", "d", "e", "f", "g", "h", "i", "j", "k", "l", "m",
      "n", "o", "p", "q", "r", "s", "t", "u", "v", "w", "x", "y", "z",
      "ú", "é">>

UpperAZ ==
    <<"A", "B", "C", "D", "E", "F", "G", "H", "I", "J", "K", "L", "M",
      "N", "O", "P", "Q", "R", "S", "T", "U", "V", "W", "X", "Y", "Z",
      "Ú", "É">>

\* the range [A-Z] of the regular expressions: ASCII capitals only
AsciiUpper == {UpperAZ[i] : i \in 1..26}

\* what str.strip() and \s treat as whitespace
Whitespace == {" ", "\t", "\n"}

\* the characters of the model's strings
Alphabet ==
    {LowerAZ[i] : i \in DOMAIN LowerAZ} \cup {UpperAZ[i] : i \in DOMAIN UpperAZ}
        \cup Whitespace \cup {".", "-"}

IsLowerChar(c) == \E i \in DOMAIN LowerAZ : LowerAZ[i] = c

IsUpperChar(c) == \E i \in DOMAIN UpperAZ : UpperAZ[i] = c

\* the cased characters (letters that have an upper and a lower form)
CasedChars == {c \in Alphabet : IsLowerChar(c) \/ IsUpperChar(c)}

IsCased(c) == c \in CasedChars

\* the upper-case form of each character
ToUpper ==
    [c \in Alphabet |->
        IF IsLowerChar(c)
        THEN UpperAZ[CHOOSE i \in DOMAIN LowerAZ : LowerAZ[i] = c]
        ELSE c]

\* the lower-case form of each character
ToLower ==
    [c \in Alphabet |->
        IF IsUpperChar(c)
        THEN LowerAZ[CHOOSE i \in DOMAIN UpperAZ : UpperAZ[i] = c]
        ELSE c]

UpperChar(c) == ToUpper[c]

LowerChar(c) == ToLower[c]

\* str.upper()
Upper(s) == [i \in 1..Len(s) |-> UpperChar(s[i])]

\* str.lower()
Lower(s) == [i \in 1..Len(s) |-> LowerChar(s[i])]

\* str.title(): a cased character is upper-cased when the character before
\* it is not cased (or there is none), and lower-cased otherwise
Title(s) ==
    [i \in 1..Len(s) |->
        IF i > 1 /\ IsCased(s[i - 1]) THEN LowerChar(s[i]) ELSE UpperChar(s[i])]

\* str.strip()
RECURSIVE LStrip(_)
LStrip(s) ==
    IF s # <<>> /\ Head(s) \in Whitespace THEN LStrip(Tail(s)) ELSE s

RECURSIVE RStrip(_)
RStrip(s) ==
    IF s # <<>> /\ s[Len(s)] \in Whitespace
    THEN RStrip(SubSeq(s, 1, Len(s) - 1))
    ELSE s

Strip(s) == RStrip(LStrip(s))

\* str.split(' '): the pieces between single spaces, empty pieces kept
RECURSIVE SplitAcc(_, _, _)
SplitAcc(s, cur, acc) ==
    IF s = <<>> THEN Append(acc, cur)
    ELSE IF Head(s) = " " THEN SplitAcc(Tail(s), <<>>, Append(acc, cur))
    ELSE SplitAcc(Tail(s), Append(cur, Head(s)), acc)

Split(s) == SplitAcc(s, <<>>, <<>>)

\* ' '.join(items)
RECURSIVE Join(_)
Join(items) ==
    IF items = <<>> THEN <<>>
    ELSE IF Len(items) = 1 THEN items[1]
    ELSE items[1] \o <<" ">> \o Join(Tail(items))

\* x in list
InList(x, list) == \E i \in DOMAIN list : list[i] = x

\* list.index(x): the first position holding x (x is in the list)
IndexOf(x, list) ==
    CHOOSE i \in DOMAIN list : list[i] = x /\ \A j \in 1..(i - 1) : list[j] # x

\* the end anchor $ of re: the end of the string, or just before a final "\n"
DropFinalNewline(s) ==
    IF s # <<>> /\ s[Len(s)] = "\n" THEN SubSeq(s, 1, Len(s) - 1) ELSE s

(***************************************************************************)
(* Class constants of PumedoroDictionaryCreator.                           *)
(***************************************************************************)
PREFIXES ==
    <<<<"J", "U", "N", "I", "O", "R">>,
      <<"J", "U", "N", ".">>,
      <<"J", "R", ".">>,
      <<"J", "R">>,
      <<"J", "R", ".">>,
      <<"J", "R">>,
      <<"J", "R", ".">>,
      <<"J", "R">>,
      <<"J", "Ú", "N", "I", "O", "R">>,
      <<"S", "E", "N", "I", "O", "R">>,
      <<"S", "E", "N", ".">>,
      <<"S", "R", ".">>,
      <<"S", "R">>,
      <<"S", "R", ".">>,
      <<"S", "R">>,
      <<"S", "R", ".">>,
      <<"S", "R">>,
      <<"I", "I", "I">>,
      <<"I", "I", "I">>,
      <<"I", "V">>,
      <<"I", "V">>>>

NOBILIARITY_PARTICLES ==
    <<<<"a", "a", "n">>,
      <<"a", "f">>,
      <<"a", "u", "f">>,
      <<"d", "a">>,
      <<"d", "a", "i">>,
      <<"d", "a", "l">>,
      <<"d", "a", "l", "l", "a">>,
      <<"d", "a", "s">>,
      <<"d", "e", " ", "l", "a">>,
      <<"d", "e">>,
      <<"d", "e">>,
      <<"d", "e", "g", "l", "i">>,
      <<"d", "e", "i">>,
      <<"d", "e", "l">>,
      <<"d", "e", "l", "l", "a">>,
      <<"d", "e", "m">>,
      <<"d", "e", "n">>,
      <<"d", "e", "r">>,
      <<"d", "e", "s">>,
      <<"d", "e", "s">>,
      <<"d", "i">>,
      <<"d", "o", "s">>,
      <<"d", "u">>,
      <<"h", "e", "t">>,
      <<"v", "a", "n">>,
      <<"v", "o", "m">>,
      <<"v", "o", "n">>,
      <<"z", "u">>,
      <<"z", "u", "r">>>>

\* re.compile("^[A-Z][aeiouy]{1}$|^Ng$").match(s)
GIVEN_2CHAR_NAME_PATTERN(s) ==
    LET t == DropFinalNewline(s) IN
        \/ Len(t) = 2 /\ t[1] \in AsciiUpper
                      /\ t[2] \in {"a", "e", "i", "o", "u", "y"}
        \/ t = <<"N", "g">>

\* re.compile("^([A-Z]\.)+$|^([A-Z]\.)-([A-Z]\.)$").match(s)
ABBREVIATION_PATTERN(s) ==
    LET t == DropFinalNewline(s) IN
        \/ /\ Len(t) >= 2
           /\ Len(t) % 2 = 0
           /\ \A i \in 1..Len(t) :
                IF i % 2 = 1 THEN t[i] \in AsciiUpper ELSE t[i] = "."
        \/ /\ Len(t) = 5
           /\ t[1] \in AsciiUpper /\ t[2] = "." /\ t[3] = "-"
           /\ t[4] \in AsciiUpper /\ t[5] = "."

(***************************************************************************)
(* _get_given_names and _get_family_name.                                  *)
(***************************************************************************)
Str(text) == [kind |-> "str", text |-> text]

None == [kind |-> "None", text |-> <<>>]

\* x not in PREFIXES: the comparison without upper()
NotPrefixCaseSensitive(x) == ~InList(x, PREFIXES)

\* (2) x.upper() not in PREFIXES
NotPrefix(x) == ~InList(Upper(x), PREFIXES)

\* the prefixes looked for behind a hyphen as well
RemovePrefixesBehindHyphen(items) ==
    SelectSeq(items,
        LAMBDA x : /\ NotPrefix(x)
                   /\ \A i \in DOMAIN x :
                          x[i] = "-" => NotPrefix(SubSeq(x, i + 1, Len(x))))

\* (2) items = [x for x in items if x.upper() not in PREFIXES]
RemovePrefixes(items) == SelectSeq(items, NotPrefix)

\* len(x) >= 1: the bound off by one
NotOneLetterOffByOne(x) == Len(x) >= 1

\* (3) len(x) >= 2
NotOneLetter(x) == Len(x) >= 2

\* only the items of exactly one letter removed, the empty ones kept
RemoveExactlyOneLetterItems(items) == SelectSeq(items, LAMBDA x : Len(x) # 1)

\* (3) items = [x for x in items if len(x) >= 2]
RemoveOneLetterItems(items) == SelectSeq(items, NotOneLetter)

\* (*) not ABBREVIATION_PATTERN.match(x)
NotAbbreviation(x) == ~ABBREVIATION_PATTERN(x)

\* (*) items = [x for x in items if not ABBREVIATION_PATTERN.match(x)]
RemoveAbbreviations(items) == SelectSeq(items, NotAbbreviation)

\* items.remove(item): deletes the first element equal to item
ListRemove(items, item) ==
    LET i == IndexOf(item, items) IN
        SubSeq(items, 1, i - 1) \o SubSeq(items, i + 1, Len(items))

\* the condition under which step (4) removes an item
RejectedTwoChar(item) ==
    /\ Len(item) = 2
    /\ ~InList(item, NOBILIARITY_PARTICLES)
    /\ ~GIVEN_2CHAR_NAME_PATTERN(Strip(item))

\* (4) for item in items: ... items.remove(item)
\* The list iterator holds a position in the list it walks; the list is the
\* one that remove() shortens, and the iterator steps on by one regardless.
RECURSIVE HandleTwoCharItems(_, _)
HandleTwoCharItems(items, pos) ==
    IF pos > Len(items) THEN items
    ELSE IF RejectedTwoChar(items[pos])
    THEN HandleTwoCharItems(ListRemove(items, items[pos]), pos + 1)
    ELSE HandleTwoCharItems(items, pos + 1)

\* the loop of step (5) left by a break after its first del
RECURSIVE HandleParticlesBreak(_, _)
HandleParticlesBreak(items, k) ==
    IF k > Len(NOBILIARITY_PARTICLES) THEN items
    ELSE LET particle == NOBILIARITY_PARTICLES[k]
             items_lower == [i \in 1..Len(items) |-> Lower(items[i])]
         IN  IF InList(particle, items_lower)
             THEN SubSeq(items, 1, IndexOf(particle, items_lower) - 1)
             ELSE HandleParticlesBreak(items, k + 1)

\* (5) for particle in NOBILIARITY_PARTICLES: ... del items[index:]
\* k is the position of the loop in NOBILIARITY_PARTICLES
RECURSIVE HandleParticles(_, _)
HandleParticles(items, k) ==
    IF k > Len(NOBILIARITY_PARTICLES) THEN items
    ELSE LET particle == NOBILIARITY_PARTICLES[k]
             items_lower == [i \in 1..Len(items) |-> Lower(items[i])]
         IN  IF InList(particle, items_lower)
             THEN HandleParticles(
                      SubSeq(items, 1, IndexOf(particle, items_lower) - 1),
                      k + 1)
             ELSE HandleParticles(items, k + 1)

\* The lists _get_given_names holds after each of its steps;
\* raised: name_string.split raised AttributeError (name_string is None),
\* and the exception leaves the method.
_get_given_names(name_str) ==
    IF name_str.kind # "str"
    THEN [raised |-> TRUE, split |-> <<>>, no_prefix |-> <<>>,
          no_initial |-> <<>>, no_abbrev |-> <<>>, two_char |-> <<>>,
          items |-> <<>>]
    ELSE LET split      == Split(name_str.text)
             no_prefix  == RemovePrefixes(split)
             no_initial == RemoveOneLetterItems(no_prefix)
             no_abbrev  == RemoveAbbreviations(no_initial)
             two_char   == HandleTwoCharItems(no_abbrev, 1)
             items      == HandleParticles(two_char, 1)
         IN  [raised |-> FALSE, split |-> split, no_prefix |-> no_prefix,
              no_initial |-> no_initial, no_abbrev |-> no_abbrev,
              two_char |-> two_char, items |-> items]

\* _get_family_name with the particle step of the given names copied in
GetFamilyNameDroppingParticles(name_str) ==
    IF name_str.kind # "str"
    THEN None
    ELSE Str(Join(HandleParticles(RemovePrefixes(Split(name_str.text)), 1)))

\* _get_family_name: None when name_string.split raises (the except clause),
\* otherwise the tokens that are no prefix, joined by a space
_get_family_name(name_str) ==
    IF name_str.kind # "str"
    THEN None
    ELSE Str(Join(RemovePrefixes(Split(name_str.text))))

(***************************************************************************)
(* The phonetic encoders (package fuzzy) behind _get_soundex and           *)
(* _get_metaphone.  The code of an encoder is a function of the text only; *)
(* the model keeps the text it was computed from.  Soundex encodes ASCII   *)
(* text only and raises on any other character; DMetaphone returns no      *)
(* primary code (None, whose .decode raises) for a text without letters.   *)
(***************************************************************************)
\* the size argument of fuzzy.Soundex
SoundexSize == 4

IsAscii(c) == c \notin {"ú", "é", "Ú", "É"}

\* self._soundex(text) raises
SoundexRaises(text) == \E i \in DOMAIN text : ~IsAscii(text[i])

\* self._dmeta(text)[0].decode("utf-8") raises
MetaphoneRaises(text) == \A i \in DOMAIN text : ~IsCased(text[i])

\* the '' that the except clauses return
EmptyCode == [encoder |-> "none", size |-> 0, of |-> <<>>]

_get_soundex(text) ==
    IF SoundexRaises(text) THEN EmptyCode
    ELSE [encoder |-> "soundex", size |-> SoundexSize, of |-> text]

\* one try block around both encoders: no metaphone when the soundex failed
GetMetaphoneUnlessSoundexFailed(text) ==
    IF MetaphoneRaises(text) \/ SoundexRaises(text) THEN EmptyCode
    ELSE [encoder |-> "metaphone", size |-> 0, of |-> text]

_get_metaphone(text) ==
    IF MetaphoneRaises(text) THEN EmptyCode
    ELSE [encoder |-> "metaphone", size |-> 0, of |-> text]

(***************************************************************************)
(* The Author elements the XML files are made of.                          *)
(***************************************************************************)
\* "Anne-Els van de"
AnneElsVanDe ==
    <<"A", "n", "n", "e", "-", "E", "l", "s", " ", "v", "a", "n", " ",
      "d", "e">>

Silva == <<"S", "i", "l", "v", "a">>

\* "martin P"
MartinP == <<"m", "a", "r", "t", "i", "n", " ", "P">>

\* "MARTIN"
MARTIN == <<"M", "A", "R", "T", "I", "N">>

Jose == <<"J", "o", "s", "é">>

Junior == <<"J", "u", "n", "i", "o", "r">>

\* the Author elements of the files: GivenName text and FamilyName text
Authors ==
    { [given |-> Str(AnneElsVanDe), family |-> Str(Silva)],
      [given |-> None,              family |-> Str(Silva)],
      [given |-> Str(MartinP),      family |-> None],
      [given |-> Str(<<>>),         family |-> Str(MARTIN)],
      [given |-> Str(Jose),         family |-> Str(Junior)] }

\* the classifiers are pure: what they compute for the GivenName and
\* FamilyName texts of the authors, tabulated
GivenNamesOf ==
    [given \in {a.given : a \in Authors} |-> _get_given_names(given)]

FamilyNameOf ==
    [family \in {a.family : a \in Authors} |-> _get_family_name(family)]

(***************************************************************************)
(* The dictionary: Python's dict keeps its keys in insertion order, so it  *)
(* is the sequence of its entries; an entry is the key with the list       *)
(* [occ_given, occ_family, soundex, metaphone] stored under it.            *)
(***************************************************************************)
HasKey(dict, name) == \E i \in DOMAIN dict : dict[i].name = name

KeyIndex(dict, name) == CHOOSE i \in DOMAIN dict : dict[i].name = name

\* self._dictionary[given_name] = [1, 0, soundex, metaphone]
NewGivenEntry(name) ==
    [name |-> name, occ_given |-> 1, occ_family |-> 0,
     soundex |-> _get_soundex(name), metaphone |-> _get_metaphone(name)]

\* the new entry of a family name with both counts 0
NewFamilyEntryUncounted(name) ==
    [name |-> name, occ_given |-> 0, occ_family |-> 0,
     soundex |-> _get_soundex(name), metaphone |-> _get_metaphone(name)]

\* self._dictionary[family_name] = [0, 1, soundex, metaphone]
NewFamilyEntry(name) ==
    [name |-> name, occ_given |-> 0, occ_family |-> 1,
     soundex |-> _get_soundex(name), metaphone |-> _get_metaphone(name)]

\* the entry written anew on every sighting, its codes left empty
CountGivenDroppingCodes(dict, given_name) ==
    IF HasKey(dict, given_name)
    THEN LET i == KeyIndex(dict, given_name) IN
             [dict EXCEPT ![i].occ_given = @ + 1,
                          ![i].soundex = EmptyCode,
                          ![i].metaphone = EmptyCode]
    ELSE Append(dict, NewGivenEntry(given_name))

\* lines 122-125: count one sighting of given_name
CountGiven(dict, given_name) ==
    IF HasKey(dict, given_name)
    THEN LET i == KeyIndex(dict, given_name) IN
             [dict EXCEPT ![i].occ_given = @ + 1]
    ELSE Append(dict, NewGivenEntry(given_name))

\* the list [0, occ_family + 1, ...] stored over the entry
CountFamilyResettingGiven(dict, family_name) ==
    IF HasKey(dict, family_name)
    THEN LET i == KeyIndex(dict, family_name) IN
             [dict EXCEPT ![i].occ_family = @ + 1, ![i].occ_given = 0]
    ELSE Append(dict, NewFamilyEntry(family_name))

\* lines 136-139: count one sighting of family_name
CountFamily(dict, family_name) ==
    IF HasKey(dict, family_name)
    THEN LET i == KeyIndex(dict, family_name) IN
             [dict EXCEPT ![i].occ_family = @ + 1]
    ELSE Append(dict, NewFamilyEntry(family_name))

\* the tokens counted as they are, without title()
RECURSIVE CountGivenNamesUntitled(_, _)
CountGivenNamesUntitled(dict, given_names) ==
    IF given_names = <<>> THEN dict
    ELSE CountGivenNamesUntitled(CountGiven(dict, Head(given_names)),
                                 Tail(given_names))

\* lines 116-125: for given_name in given_names (no item is ever None)
RECURSIVE CountGivenNames(_, _)
CountGivenNames(dict, given_names) ==
    IF given_names = <<>> THEN dict
    ELSE CountGivenNames(CountGiven(dict, Title(Head(given_names))),
                         Tail(given_names))

\* lines 127-139: the family name of one author; _get_family_name does
\* not raise, and None makes the loop continue with the next author
IngestFamily(dict, family) ==
    LET family_name == FamilyNameOf[family] IN
        IF family_name = None
        THEN [dict |-> dict, raised |-> FALSE]
        ELSE [dict |-> CountFamily(dict, Title(family_name.text)),
              raised |-> FALSE]

\* the tokens counted as they were before the particle step
IngestAuthorBeforeParticles(dict, author) ==
    LET given_names == _get_given_names(author.given) IN
        IF given_names.raised THEN [dict |-> dict, raised |-> TRUE]
        ELSE IngestFamily(CountGivenNames(dict, given_names.two_char),
                          author.family)

\* lines 111-139: one pass of the loop over the authors.
\* raised: _get_given_names raised, which nothing catches.
IngestAuthor(dict, author) ==
    LET given_names == GivenNamesOf[author.given] IN
        IF given_names.raised THEN [dict |-> dict, raised |-> TRUE]
        ELSE IngestFamily(CountGivenNames(dict, given_names.items),
                          author.family)

\* update_dictionary_from_file: the loop over the authors of the file; an
\* exception ends it and leaves the method, the entries counted so far stay
RECURSIVE IngestFile(_, _)
IngestFile(dict, authors) ==
    IF authors = <<>> THEN [dict |-> dict, raised |-> FALSE]
    ELSE LET one == IngestAuthor(dict, Head(authors)) IN
        IF one.raised THEN one ELSE IngestFile(one.dict, Tail(authors))

\* update_dictionary: the loop over the files of the folder; an exception
\* of update_dictionary_from_file is not caught and ends the scan
RECURSIVE IngestFolder(_, _)
IngestFolder(dict, file_names) ==
    IF file_names = <<>> THEN [dict |-> dict, raised |-> FALSE]
    ELSE LET one == IngestFile(dict, Head(file_names)) IN
        IF one.raised THEN one ELSE IngestFolder(one.dict, Tail(file_names))

(***************************************************************************)
(* Inputs of the model.                                                    *)
(***************************************************************************)
SeqsUpTo(S, n) == UNION {[1..k -> S] : k \in 0..n}

RECURSIVE Sum(_)
Sum(lens) == IF lens = <<>> THEN 0 ELSE Head(lens) + Sum(Tail(lens))

\* the files of lens[1], lens[2], ... authors that the authors fill in order
RECURSIVE Cut(_, _)
Cut(authors, lens) ==
    IF lens = <<>> THEN <<>>
    ELSE <<SubSeq(authors, 1, Head(lens))>>
             \o Cut(SubSeq(authors, Head(lens) + 1, Len(authors)), Tail(lens))

\* the folders: at most MaxFiles files holding at most MaxCorpus authors
Folders ==
    UNION { { Cut(authors, lens) :
                lens \in {l \in SeqsUpTo(0..Len(authors), MaxFiles) :
                              Sum(l) = Len(authors)} } :
            authors \in SeqsUpTo(Authors, MaxCorpus) }

\* the tokens raw name strings are made of
Vocabulary ==
    { <<>>,
      <<"P">>,
      <<"J", "o">>,
      <<"X", "X">>,
      <<"N", "g">>,
      <<"d", "e">>,
      <<"D", "E">>,
      <<"A", "f">>,
      <<"V", "o", "n">>,
      <<"J", "r", ".">>,
      <<"J", "ú", "n", "i", "o", "r">>,
      <<"A", ".", "B", ".">>,
      <<"A", ".", "-", "B", ".">>,
      <<"M", "a", "x", "i">>,
      <<"L", "e", "i", "t", "e", "-", "J", "ú", "n", "i", "o", "r">>,
      <<"\t", "\t", "\t">> }

\* the arguments of the classifiers: None and the strings of at most
\* MaxTokens tokens separated by single spaces
RawInputs ==
    {None} \cup {Str(Join(ts)) : ts \in SeqsUpTo(Vocabulary, MaxTokens)}

\* the values of sortby: the five the code knows, and one it does not
SortKeys ==
    {"", "name", "occ_given", "given", "occ_family", "family", "soundex"}

(***************************************************************************)
(* get_dataframe: the rows and their order.                                *)
(***************************************************************************)
\* the code point of each character
CodePoint ==
    [c \in Alphabet |->
        IF c \in AsciiUpper
            THEN 64 + (CHOOSE i \in DOMAIN UpperAZ : UpperAZ[i] = c)
        ELSE IF IsLowerChar(c) /\ IsAscii(c)
            THEN 96 + (CHOOSE i \in DOMAIN LowerAZ : LowerAZ[i] = c)
        ELSE IF c = "\t" THEN 9
        ELSE IF c = "\n" THEN 10
        ELSE IF c = " " THEN 32
        ELSE IF c = "-" THEN 45
        ELSE IF c = "." THEN 46
        ELSE IF c = "É" THEN 201
        ELSE IF c = "Ú" THEN 218
        ELSE IF c = "é" THEN 233
        ELSE 250]

\* a < b for Python strings: the first differing code point decides, and
\* a proper prefix is smaller
RECURSIVE StrLess(_, _)
StrLess(a, b) ==
    IF b = <<>> THEN FALSE
    ELSE IF a = <<>> THEN TRUE
    ELSE IF Head(a) = Head(b) THEN StrLess(Tail(a), Tail(b))
    ELSE CodePoint[Head(a)] < CodePoint[Head(b)]

\* lines 52-56: one row [key, occ_given, occ_family, soundex, metaphone]
\* per key, in the order of the dictionary, under the index 0, 1, ...
Rows(dict) ==
    [i \in DOMAIN dict |->
        [index |-> i - 1, name |-> dict[i].name,
         occ_given |-> dict[i].occ_given, occ_family |-> dict[i].occ_family,
         soundex |-> dict[i].soundex, metaphone |-> dict[i].metaphone]]

\* the counts sorted without ascending=False
SortsBeforeAscending(key, a, b) ==
    IF key = "name" THEN StrLess(a.name, b.name)
    ELSE IF key \in {"occ_given", "given"} THEN a.occ_given < b.occ_given
    ELSE IF key \in {"occ_family", "family"} THEN a.occ_family < b.occ_family
    ELSE FALSE

\* lines 58-63: row a has to stand in front of row b
SortsBefore(key, a, b) ==
    IF key = "name" THEN StrLess(a.name, b.name)
    ELSE IF key \in {"occ_given", "given"} THEN a.occ_given > b.occ_given
    ELSE IF key \in {"occ_family", "family"} THEN a.occ_family > b.occ_family
    ELSE FALSE

\* the orders of the rows at the positions S that respect SortsBefore
RECURSIVE Sorted(_, _, _)
Sorted(rows, S, key) ==
    IF S = {} THEN {<<>>}
    ELSE UNION { { <<rows[i]>> \o rest : rest \in Sorted(rows, S \ {i}, key) } :
                 i \in {k \in S :
                           \A j \in S : ~SortsBefore(key, rows[j], rows[k])} }

\* lines 58-63: DataFrame.sort_values with the default kind 'quicksort',
\* which is not stable: rows with equal keys come in any order; a sortby
\* the code does not know leaves the rows as they are
sort_values(rows, key) ==
    IF key \in {"name", "occ_given", "given", "occ_family", "family"}
    THEN Sorted(rows, DOMAIN rows, key)
    ELSE {rows}

(***************************************************************************)
(* PubMedNameFetcher (Code/pubmed_name_fetcher.py): the article IDs and    *)
(* the authors the PubMed server delivers.  An article ID is the pair of   *)
(* the token it was found for and its position in the server's list; every *)
(* article has one author, named as its article.                           *)
(***************************************************************************)
\* pubmed_name_fetcher.py line 26, NCBIExtractor.py line 17, pumex.py line 23
DEFAULT_SIZE_OF_EXTRACTION_PORTION == 200
\* pubmed_name_fetcher.py line 20, NCBIExtractor.py line 18, pumex.py line 17
NUMBER_OF_IDS_IN_PARTIAL_REQUEST == 1000

Min(a, b) == IF a <= b THEN a ELSE b

\* Python's seq[from:to]
Slice(seq, from, to) ==
    SubSeq(seq, Min(from, Len(seq)) + 1, Min(to, Len(seq)))

\* the countries of the model; the topics are the same for all tokens, so a
\* token f"{basic_token}+{country}" is told by its country
Countries == {"China", "UK"}

\* the numbers of articles the server may hold for a token: around the
\* multiples of the extraction portion
IdCounts ==
    {n \in 0..(MaxPortions * DEFAULT_SIZE_OF_EXTRACTION_PORTION + 1) :
        \E k \in 0..MaxPortions : \E d \in {-1, 0, 1} :
            n = k * DEFAULT_SIZE_OF_EXTRACTION_PORTION + d}

\* the server's list of the article IDs of a token that has n articles
ServerIds(token, n) == [i \in 1..n |-> <<token, i>>]

\* _get_portion_of_ids_for_token(token, from, number_of_entries), n being
\* the number of articles the server holds for the token
_get_portion_of_ids_for_token(token, from, number_of_entries, n) ==
    Slice(ServerIds(token, n), from, from + number_of_entries)

\* lines 185-198: the loop over the portions
RECURSIVE IdsFrom(_, _, _)
IdsFrom(token, from, number_of_finds) ==
    IF from < number_of_finds
    THEN _get_portion_of_ids_for_token(
             token, from, NUMBER_OF_IDS_IN_PARTIAL_REQUEST, number_of_finds)
         \o IdsFrom(token, from + NUMBER_OF_IDS_IN_PARTIAL_REQUEST,
                    number_of_finds)
    ELSE <<>>

\* _get_article_ids_for_token(token), the server reporting number_of_finds
_get_article_ids_for_token(token, number_of_finds) ==
    IF number_of_finds <= 0 THEN <<>> ELSE IdsFrom(token, 0, number_of_finds)

\* _extract_authors(ids): the authors of the articles, nothing at a net
\* error or an answer that cannot be parsed (lines 238-240, 255-256)
_extract_authors(id_list, answered) ==
    IF answered THEN [i \in DOMAIN id_list |-> [article |-> id_list[i]]]
    ELSE <<>>

\* lines 90-98: the formats the method knows how to save
SaveFormats == {"csv", "json", "xml"}

(***************************************************************************)
(* NCBIExtractor (Code/NCBIExtractor.py): the articles of the server and   *)
(* the values its methods pass around.  An article ID is a number; what    *)
(* the server holds for it is told by the ID.  The text of a str is a      *)
(* sequence of strings, the empty str being <<>>.                          *)
(***************************************************************************)
\* a Python value of the extractor: None, a str, or the tuple (pmid, text)
\* of line 203; pmid is 0 where the value has none
PyNone == [type |-> "None", pmid |-> 0, text |-> <<>>]
PyStr(text) == [type |-> "str", pmid |-> 0, text |-> text]
PyTuple(pmid, text) == [type |-> "tuple", pmid |-> pmid, text |-> text]

\* Python's len() of such a value
PyLen(v) == IF v.type = "tuple" THEN 2 ELSE Len(v.text)

\* what the server answers for an article ID: an article with an abstract
\* text, one without an Abstract element, one whose Abstract element holds
\* no AbstractText, or no PubmedArticle at all
ArticleKinds == <<"text", "no_abstract", "empty_abstract", "missing">>
KindOf(id) == ArticleKinds[(id % Len(ArticleKinds)) + 1]

\* lines 199-201: the texts of the AbstractText elements, each behind "\n"
AbstractOf(id) ==
    IF KindOf(id) = "text" THEN <<"\n", ToString(id)>> ELSE <<>>

\* _extract_abstract_from_article: None without an Abstract element, the
\* tuple (pmid, abstract) otherwise; the article is there
_extract_abstract_from_article(id) ==
    IF KindOf(id) = "no_abstract" THEN PyNone
    ELSE PyTuple(id, AbstractOf(id))

\* get_abstract(article_id): tree.find gives None for an ID without an
\* article, and line 190 raises on it
get_abstract(id) ==
    IF KindOf(id) = "missing" THEN [raised |-> TRUE, value |-> PyNone]
    ELSE [raised |-> FALSE, value |-> _extract_abstract_from_article(id)]

\* texts[key] = value
SetItem(texts, key, value) ==
    [k \in DOMAIN texts \cup {key} |-> IF k = key THEN value ELSE texts[k]]

\* add_abstract(article_id) on the dictionary texts
add_abstract(texts, id) ==
    LET got == get_abstract(id)
        abstract == got.value
    IN  IF got.raised THEN [raised |-> TRUE, texts |-> texts]
        ELSE IF abstract # PyNone /\ PyLen(abstract) > 0
                /\ id \notin DOMAIN texts
             THEN [raised |-> FALSE, texts |-> SetItem(texts, id, abstract)]
             ELSE [raised |-> FALSE, texts |-> texts]

\* numpy.array_split(seq, k): k chunks, the first Len(seq) % k of them one
\* longer than the others
array_split(seq, k) ==
    LET q == Len(seq) \div k
        r == Len(seq) % k
        first(i) == (i - 1) * q + Min(i - 1, r)
        size(i) == q + (IF i <= r THEN 1 ELSE 0)
    IN  [i \in 1..k |-> SubSeq(seq, first(i) + 1, first(i) + size(i))]

\* line 142
NumberOfChunks(id_list) ==
    (Len(id_list) \div DEFAULT_SIZE_OF_EXTRACTION_PORTION) + 1

\* _add_articles_by_ids(pubmed_ids): the dictionary it leaves.  It clears
\* the dictionary first (line 212), the answer holds a PubmedArticle for
\* every ID the server has an article for, and the str of the tuple is
\* stored under the pmid
_add_articles_by_ids(pubmed_ids) ==
    LET found == {pubmed_ids[i] : i \in DOMAIN pubmed_ids}
        stored == {id \in found :
                      /\ KindOf(id) # "missing"
                      /\ _extract_abstract_from_article(id) # PyNone}
    IN  [id \in stored |-> PyStr(_extract_abstract_from_article(id).text)]

\* the ID lists given to add_abstracts: runs of IDs, the first of any kind
IdRuns ==
    {[i \in 1..n |-> from + i - 1] :
        n \in IdCounts, from \in 1..Len(ArticleKinds)}

\* the numbers of IDs the server may report or hold for the topics: around
\* the multiples of the partial request
FindCounts ==
    {n \in 0..(MaxPortions * NUMBER_OF_IDS_IN_PARTIAL_REQUEST + 1) :
        \E k \in 0..MaxPortions : \E d \in {-1, 0, 1} :
            n = k * NUMBER_OF_IDS_IN_PARTIAL_REQUEST + d}

\* _download_portion_of_request_ids(topics, from, number_of_entries), the
\* server holding n IDs for the topics
_download_portion_of_request_ids(from, number_of_entries, n) ==
    Slice([i \in 1..n |-> i], from, from + number_of_entries)

(***************************************************************************)
(* PMCache (Code/pmname.py): the older name cache.                         *)
(***************************************************************************)
\* line 36, character by character as the file holds it
SUFFIXES ==
    <<<<"j", "r">>,
      <<"j", "r", ".">>,
      <<"j", "u", "n", "i", "o", "r">>,
      <<"j", "Ã", "º", "n", "i", "o", "r">>,
      <<"j", "u", "n">>,
      <<"j", "u", "n", ".">>,
      <<"s", "r">>,
      <<"s", "r", ".">>,
      <<"s", "e", "n", "i", "o", "r">>,
      <<"s", "e", "n">>,
      <<"s", "e", "n", ".">>,
      <<"i", "i", "i">>>>

\* the range [a-z] of the regular expression: ASCII small letters only
AsciiLower == {LowerAZ[i] : i \in 1..26}

\* re.compile("^[A-Z][aeiouy]{1}$|^[A-Z][a-z]{2,}$|^Ng$").match(s)
GIVEN_NAME_PATTERN(s) ==
    LET t == DropFinalNewline(s) IN
        \/ Len(t) = 2 /\ t[1] \in AsciiUpper
                      /\ t[2] \in {"a", "e", "i", "o", "u", "y"}
        \/ Len(t) >= 3 /\ t[1] \in AsciiUpper
                       /\ \A i \in 2..Len(t) : t[i] \in AsciiLower
        \/ t = <<"N", "g">>

\* PMCache._get_given_names(text), lines 172-181
CacheGetGivenNames(str) ==
    SelectSeq(Split(str), LAMBDA item : GIVEN_NAME_PATTERN(item))

\* line 193: cell.upper() in PMCache.SUFFIXES, the cell is skipped
IsSuffixCell(cell) == InList(Upper(cell), SUFFIXES)

\* _clean_family_name(text), lines 183-198
_clean_family_name(str) ==
    Join(SelectSeq(Split(str), LAMBDA cell : ~IsSuffixCell(cell)))

\* the tokens the family names of the model are made of
CacheVocabulary ==
    { <<>>,
      <<"S", "i", "l", "v", "a">>,
      <<"d", "e">>,
      <<"j", "r">>,
      <<"J", "r">>,
      <<"J", "R">>,
      <<"j", "r", ".">>,
      <<"J", "R", ".">>,
      <<"i", "i", "i">>,
      <<"I", "I", "I">>,
      <<"J", "u", "n", "i", "o", "r">>,
      <<"J", "ú", "n", "i", "o", "r">> }

\* the arguments of _clean_family_name
FamilyTexts == {Join(ts) : ts \in SeqsUpTo(CacheVocabulary, MaxTokens)}

MaxiJo == <<"M", "a", "x", "i", " ", "J", "o">>

JuniorAccented == <<"J", "ú", "n", "i", "o", "r">>

\* the Author elements of the files the cache reads; a name can be a given
\* name and a family name
CacheAuthors ==
    { [given |-> Str(MaxiJo),      family |-> Str(Silva)],
      [given |-> Str(Jose),        family |-> Str(JuniorAccented)],
      [given |-> None,             family |-> Str(Silva)],
      [given |-> Str(Silva),       family |-> None],
      [given |-> Str(<<"N", "g">>), family |-> Str(<<>>)] }

\* the files of the folder: at most MaxCorpus authors in at most MaxFiles
\* files
CacheFolders ==
    UNION { { Cut(authors, lens) :
                lens \in {l \in SeqsUpTo(1..MaxCorpus, MaxFiles) :
                             Sum(l) = Len(authors)} } :
            authors \in SeqsUpTo(CacheAuthors, MaxCorpus) }

\* lines 60-66 and 71-77: the entry of the name counted once more, or made
CacheCount(names, name) ==
    IF \E i \in DOMAIN names : names[i].name = name
    THEN [i \in DOMAIN names |->
            IF names[i].name = name
            THEN [names[i] EXCEPT !.occurrences = @ + 1]
            ELSE names[i]]
    ELSE Append(names, [name |-> name, value |-> Title(name),
                        occurrences |-> 1])

RECURSIVE CacheCountAll(_, _)
CacheCountAll(names, items) ==
    IF items = <<>> THEN names
    ELSE CacheCountAll(CacheCount(names, Head(items)), Tail(items))

\* lines 55-79: one Author element; an exception ends the element where it
\* is raised (text.split on None at line 174 or line 189) and the loop
\* goes on
CacheProcessAuthor(cache, author) ==
    IF author.given.kind # "str" THEN cache
    ELSE LET given == CacheCountAll(cache.given,
                                    CacheGetGivenNames(author.given.text))
         IN  IF author.family.kind # "str"
             THEN [cache EXCEPT !.given = given]
             ELSE [given |-> given,
                   family |-> CacheCount(
                       cache.family, _clean_family_name(author.family.text))]

RECURSIVE CacheProcessFile(_, _)
CacheProcessFile(cache, authors) ==
    IF authors = <<>> THEN cache
    ELSE CacheProcessFile(CacheProcessAuthor(cache, Head(authors)),
                          Tail(authors))

\* lines 93-95
RECURSIVE CacheProcessFiles(_, _)
CacheProcessFiles(cache, files) ==
    IF files = <<>> THEN cache
    ELSE CacheProcessFiles(CacheProcessFile(cache, Head(files)), Tail(files))

\* a local of create_data_frame that nothing was assigned to yet
Unbound == [encoder |-> "unbound", size |-> 0, of |-> <<>>]

\* lines 127-130 and 143-146: v_soundex after the try block
SoundexLocal(v_soundex, name) ==
    IF SoundexRaises(name) THEN v_soundex
    ELSE [encoder |-> "soundex", size |-> SoundexSize, of |-> name]

\* lines 132-135 and 148-151: methaphone after the try block
MetaphoneLocal(methaphone, name) ==
    IF MetaphoneRaises(name) THEN methaphone
    ELSE [encoder |-> "metaphone", size |-> 0, of |-> name]

\* lines 123-137: the loop over the given names; fr is the table, the two
\* locals and whether line 137 raised on a local that is not bound
RECURSIVE GivenRows(_, _)
GivenRows(fr, names) ==
    IF names = <<>> \/ fr.raised THEN fr
    ELSE LET gn == Head(names)
             v_soundex == SoundexLocal(fr.v_soundex, gn.name)
             methaphone == MetaphoneLocal(fr.methaphone, gn.name)
         IN  IF v_soundex = Unbound \/ methaphone = Unbound
             THEN [fr EXCEPT !.raised = TRUE]
             ELSE GivenRows(
                    [table |-> Append(fr.table,
                        [name |-> gn.name, occ_given |-> gn.occurrences,
                         occ_family |-> 0, soundex |-> v_soundex,
                         metaphone |-> methaphone]),
                     v_soundex |-> v_soundex, methaphone |-> methaphone,
                     raised |-> FALSE],
                    Tail(names))

\* lines 139-156: the loop over the family names
RECURSIVE FamilyRows(_, _)
FamilyRows(fr, names) ==
    IF names = <<>> \/ fr.raised THEN fr
    ELSE LET fn == Head(names)
             v_soundex == SoundexLocal(fr.v_soundex, fn.name)
             methaphone == MetaphoneLocal(fr.methaphone, fn.name)
             known == \E i \in DOMAIN fr.table : fr.table[i].name = fn.name
         IN  IF known
             THEN FamilyRows(
                    [table |-> [i \in DOMAIN fr.table |->
                        IF fr.table[i].name = fn.name
                        THEN [fr.table[i] EXCEPT
                                 !.occ_family = fn.occurrences]
                        ELSE fr.table[i]],
                     v_soundex |-> v_soundex, methaphone |-> methaphone,
                     raised |-> FALSE],
                    Tail(names))
             ELSE IF v_soundex = Unbound \/ methaphone = Unbound
             THEN [fr EXCEPT !.raised = TRUE]
             ELSE FamilyRows(
                    [table |-> Append(fr.table,
                        [name |-> fn.name, occ_given |-> 0,
                         occ_family |-> fn.occurrences,
                         soundex |-> v_soundex, metaphone |-> methaphone]),
                     v_soundex |-> v_soundex, methaphone |-> methaphone,
                     raised |-> FALSE],
                    Tail(names))

\* lines 119-158: the table of create_data_frame
CacheTable(given, family) ==
    FamilyRows(
        GivenRows([table |-> <<>>, v_soundex |-> Unbound,
                   methaphone |-> Unbound, raised |-> FALSE], given),
        family)

\* line 158: the rows of the frame, numbered as pandas numbers them
CacheRows(table) ==
    [i \in DOMAIN table |->
        [index |-> i - 1, name |-> table[i].name,
         occ_given |-> table[i].occ_given,
         occ_family |-> table[i].occ_family,
         soundex |-> table[i].soundex, metaphone |-> table[i].metaphone]]

\* the values of sortby: the five the code knows, and its default
CacheSortKeys ==
    {"none", "name", "occurrences_given", "given", "occurrences_family",
     "family"}

\* lines 160-167: the column the frame is sorted by
CacheSortColumn(key) ==
    IF key = "name" THEN "name"
    ELSE IF key \in {"occurrences_given", "given"} THEN "occ_given"
    ELSE IF key \in {"occurrences_family", "family"} THEN "occ_family"
    ELSE ""

(***************************************************************************)
(* State.                                                                  *)
(***************************************************************************)
VARIABLES
    folder,        \* the XML files of the folder, each the list of its authors
    dictionary,    \* self._dictionary
    op,            \* the method of the creator called last
    file_arg,      \* update_dictionary_from_file: position of the file read
    raised,        \* the last call was left by an exception
    counted,       \* how often each author was counted since the last clear
    cleared,       \* how many entries the last clear removed, until an ingest
    sortby,        \* get_dataframe: its argument
    df,            \* get_dataframe: the rows of the data frame it returned
    name_string,   \* the argument of the classifier calls
    call,          \* the classifier called last
    given_names,   \* what _get_given_names computed
    family_name    \* what _get_family_name returned

\* PubMedNameFetcher (Code/pubmed_name_fetcher.py) and the server it queries
VARIABLES
    finds,         \* server: the number of articles it reports for a token
    countries,     \* create_authors_by_topics_and_countries: its argument
    pc,            \* position of the fetcher in that method
    country,       \* position of the loop at line 78 in countries
    ids,           \* fetch_author_names: the local ids
    start,         \* fetch_author_names: the local start
    _authors,      \* self._authors
    batches,       \* the lists fetch_author_names passed to _extract_authors
    fetched,       \* the authors _extract_authors returned since line 76
    saved          \* the authors written to the file at lines 90-98

fetcherVars ==
    <<finds, countries, pc, country, ids, start, _authors, batches, fetched,
      saved>>

\* NCBIExtractor (Code/NCBIExtractor.py) and the server it queries
VARIABLES
    _texts,               \* NCBIExtractor._texts
    xpc,                  \* position of the extractor: idle or inside a loop
    xop,                  \* the method of the extractor called last
    xraised,              \* that call was left by an exception
    article_id,           \* add_abstract: its argument
    article_ids,          \* add_abstracts: its argument
    chunks,               \* add_abstracts: the chunks still to be processed
    held,                 \* server: the number of IDs it delivers for the topics
    total_number_of_ids,  \* get_article_ids_for_topics: the local
    result,               \* get_article_ids_for_topics: the local, returned
    count_ids_downloaded, \* get_article_ids_for_topics: the local
    start_index,          \* get_article_ids_for_topics: the local
    requests              \* the portion requests sent by the call, modulo 2

extractorVars ==
    <<_texts, xpc, xop, xraised, article_id, article_ids, chunks, held,
      total_number_of_ids, result, count_ids_downloaded, start_index,
      requests>>

\* PMCache (Code/pmname.py)
VARIABLES
    _given_names,   \* self._given_names
    _family_names,  \* self._family_names
    cop,            \* the method of the cache called last
    cache_raised,   \* that call was left by an exception
    frame,          \* create_data_frame: the rows of the frame it returned
    family_text,    \* _clean_family_name: its argument
    cleaned         \* _clean_family_name: what it returned

cacheVars ==
    <<_given_names, _family_names, cop, cache_raised, frame, family_text,
      cleaned>>

harvestVars == <<fetcherVars, extractorVars, cacheVars>>

vars ==
    <<folder, dictionary, op, file_arg, raised, counted, cleared, sortby, df,
      name_string, call, given_names, family_name, harvestVars>>

creatorVars ==
    <<folder, dictionary, op, file_arg, raised, counted, cleared, sortby, df>>

classifierVars == <<name_string, call, given_names, family_name>>

\* the files as one list of authors, in the order they are read
RECURSIVE Flatten(_)
Flatten(files) ==
    IF files = <<>> THEN <<>> ELSE Head(files) \o Flatten(Tail(files))

\* the authors whose pass of the loop at line 110 ran to its end: those in
\* front of the first one whose GivenName text is no string
RECURSIVE Completed(_)
Completed(authors) ==
    IF authors = <<>> \/ Head(authors).given.kind # "str" THEN <<>>
    ELSE <<Head(authors)>> \o Completed(Tail(authors))

\* counted, with the completed authors of the files added
CountedWith(files) ==
    LET done == Completed(Flatten(files)) IN
        [a \in Authors |->
            counted[a] + Cardinality({i \in DOMAIN done : done[i] = a})]

\* no count above MaxOcc
WithinBound(dict) ==
    \A i \in DOMAIN dict :
        dict[i].occ_given <= MaxOcc /\ dict[i].occ_family <= MaxOcc

\* __init__: the empty dictionary
InitCreator ==
    /\ dictionary = <<>>
    /\ op = "__init__"
    /\ file_arg = 0
    /\ raised = FALSE
    /\ counted = [a \in Authors |-> 0]
    /\ cleared = 0
    /\ sortby = ""
    /\ df = <<>>

InitClassifier ==
    /\ call = "none"
    /\ given_names = _get_given_names(Str(<<>>))
    /\ family_name = None

\* PubMedNameFetcher.__init__ (line 31), no method called yet
InitFetcherIdle ==
    /\ finds = [c \in Countries |-> 0]
    /\ countries = <<>>
    /\ pc = "idle"
    /\ country = 0
    /\ ids = <<>>
    /\ start = 0
    /\ _authors = <<>>
    /\ batches = <<>>
    /\ fetched = <<>>
    /\ saved = None

\* NCBIExtractor: the class as it is loaded (line 25), no method called
InitExtractorIdle ==
    /\ _texts = <<>>
    /\ xpc = "idle"
    /\ xop = "none"
    /\ xraised = FALSE
    /\ article_id = 0
    /\ article_ids = <<>>
    /\ chunks = <<>>
    /\ held = 0
    /\ total_number_of_ids = 0
    /\ result = <<>>
    /\ count_ids_downloaded = 0
    /\ start_index = 0
    /\ requests = 0

\* PMCache.__init__ (lines 42-43), no method called yet
InitCacheIdle ==
    /\ _given_names = <<>>
    /\ _family_names = <<>>
    /\ cop = "__init__"
    /\ cache_raised = FALSE
    /\ frame = <<>>
    /\ family_text = <<>>
    /\ cleaned = <<>>

\* the fetching classes and the older cache, constructed and not used
InitHarvestIdle == InitFetcherIdle /\ InitExtractorIdle /\ InitCacheIdle

\* a creator and the folder it is pointed at
Init ==
    /\ folder \in Folders
    /\ InitCreator
    /\ name_string = None
    /\ InitClassifier
    /\ InitHarvestIdle

\* update_dictionary(folder)
UpdateDictionary ==
    LET r == IngestFolder(dictionary, folder) IN
        /\ WithinBound(r.dict)
        /\ dictionary' = r.dict
        /\ raised' = r.raised
        /\ op' = "update_dictionary"
        /\ file_arg' = 0
        /\ counted' = CountedWith(folder)
        /\ cleared' = 0
        /\ sortby' = ""
        /\ df' = <<>>
        /\ UNCHANGED <<folder, classifierVars, harvestVars>>

\* update_dictionary_from_file(file_name)
UpdateDictionaryFromFile ==
    \E n \in DOMAIN folder :
        LET r == IngestFile(dictionary, folder[n]) IN
            /\ WithinBound(r.dict)
            /\ dictionary' = r.dict
            /\ raised' = r.raised
            /\ op' = "update_dictionary_from_file"
            /\ file_arg' = n
            /\ counted' = CountedWith(<<folder[n]>>)
            /\ cleared' = 0
            /\ sortby' = ""
            /\ df' = <<>>
            /\ UNCHANGED <<folder, classifierVars, harvestVars>>

\* the counts set to zero, the keys kept
ClearDictionaryKeepingKeys ==
    /\ dictionary' = [i \in DOMAIN dictionary |->
                          [dictionary[i] EXCEPT !.occ_given = 0,
                                                !.occ_family = 0]]
    /\ raised' = FALSE
    /\ op' = "clear_dictionary"
    /\ file_arg' = 0
    /\ counted' = [a \in Authors |-> 0]
    /\ cleared' = Len(dictionary)
    /\ sortby' = ""
    /\ df' = <<>>
    /\ UNCHANGED <<folder, classifierVars, harvestVars>>

\* clear_dictionary()
ClearDictionary ==
    /\ dictionary' = <<>>
    /\ raised' = FALSE
    /\ op' = "clear_dictionary"
    /\ file_arg' = 0
    /\ counted' = [a \in Authors |-> 0]
    /\ cleared' = Len(dictionary)
    /\ sortby' = ""
    /\ df' = <<>>
    /\ UNCHANGED <<folder, classifierVars, harvestVars>>

\* get_dataframe(sortby)
GetDataframe ==
    \E key \in SortKeys :
        /\ df' \in sort_values(Rows(dictionary), key)
        /\ sortby' = key
        /\ raised' = FALSE
        /\ op' = "get_dataframe"
        /\ file_arg' = 0
        /\ UNCHANGED <<folder, dictionary, counted, cleared, classifierVars, harvestVars>>

Next ==
    \/ UpdateDictionary
    \/ UpdateDictionaryFromFile
    \/ ClearDictionary

Spec == Init /\ [][Next]_vars

(***************************************************************************)
(* The creator with its data frame: a folder of one file, the dictionary   *)
(* filled, emptied and read.                                               *)
(***************************************************************************)
InitFrame ==
    /\ folder \in {f \in Folders : Len(f) = 1}
    /\ InitCreator
    /\ name_string = None
    /\ InitClassifier
    /\ InitHarvestIdle

NextFrame ==
    \/ UpdateDictionary
    \/ UpdateDictionaryFromFile
    \/ ClearDictionary
    \/ GetDataframe

SpecFrame == InitFrame /\ [][NextFrame]_vars

(***************************************************************************)
(* The classifiers on their own: one argument, the two methods applied.    *)
(***************************************************************************)
InitClassify ==
    /\ folder = <<>>
    /\ InitCreator
    /\ name_string \in RawInputs
    /\ InitClassifier
    /\ InitHarvestIdle

\* self._get_given_names(name_string)
GetGivenNames ==
    /\ call' = "_get_given_names"
    /\ given_names' = _get_given_names(name_string)
    /\ UNCHANGED <<name_string, family_name, creatorVars, harvestVars>>

\* self._get_family_name(name_string)
GetFamilyName ==
    /\ call' = "_get_family_name"
    /\ family_name' = _get_family_name(name_string)
    /\ UNCHANGED <<name_string, given_names, creatorVars, harvestVars>>

NextClassify ==
    \/ GetGivenNames
    \/ GetFamilyName

SpecClassify == InitClassify /\ [][NextClassify]_vars

(***************************************************************************)
(* PubMedNameFetcher: create_authors_by_topics_and_countries, step by      *)
(* step through its loops.                                                 *)
(***************************************************************************)
\* the dictionary creator and its classifiers, constructed and not used
InitPumedoroIdle ==
    /\ folder = <<>>
    /\ InitCreator
    /\ name_string = None
    /\ InitClassifier

InitFetcher ==
    /\ InitPumedoroIdle
    /\ InitExtractorIdle
    /\ InitCacheIdle
    /\ finds \in [Countries -> IdCounts]
    /\ countries \in SeqsUpTo(Countries, MaxCountries)
    /\ pc = "idle"
    /\ country = 0
    /\ ids = <<>>
    /\ start = 0
    /\ _authors = <<>>
    /\ batches = <<>>
    /\ fetched = <<>>
    /\ saved = None

\* lines 74-78: the call, up to the head of the loop over the countries
CreateAuthorsByTopicsAndCountries ==
    /\ pc = "idle"
    /\ _authors' = <<>>
    /\ fetched' = <<>>
    /\ country' = 1
    /\ pc' = "for"
    /\ UNCHANGED <<finds, countries, ids, start, batches, saved>>
    /\ UNCHANGED <<creatorVars, classifierVars, extractorVars, cacheVars>>

\* lines 83-84 and 47-52: fetch_author_names(token) up to the head of its
\* loop
FetchAuthorNames ==
    /\ pc = "for"
    /\ country <= Len(countries)
    /\ ids' = _get_article_ids_for_token(countries[country],
                                         finds[countries[country]])
    /\ _authors' = <<>>
    /\ start' = 0
    /\ batches' = <<>>
    /\ pc' = "while"
    /\ UNCHANGED <<finds, countries, country, fetched, saved>>
    /\ UNCHANGED <<creatorVars, classifierVars, extractorVars, cacheVars>>

\* lines 53-59: one pass of the loop of fetch_author_names; after the last
\* one the method returns to the loop over the countries
ExtractAuthors ==
    /\ pc = "while"
    /\ \E answered \in BOOLEAN :
        LET batch == Slice(ids, start,
                           start + DEFAULT_SIZE_OF_EXTRACTION_PORTION)
            authors == _extract_authors(batch, answered)
            next_start == start + DEFAULT_SIZE_OF_EXTRACTION_PORTION
        IN  /\ batches' = Append(batches, batch)
            /\ _authors' = _authors \o authors
            /\ fetched' = fetched \o authors
            /\ start' = next_start
            /\ IF next_start <= Len(ids)
               THEN pc' = "while" /\ country' = country
               ELSE pc' = "for" /\ country' = country + 1
    /\ UNCHANGED <<finds, countries, ids, saved>>
    /\ UNCHANGED <<creatorVars, classifierVars, extractorVars, cacheVars>>

\* lines 86-98: the loop over the countries is over, the file is written
\* unless the format is not one of the three
SaveAuthors ==
    /\ pc = "for"
    /\ country > Len(countries)
    /\ \E saveas \in SaveFormats \cup {"txt"} :
        saved' = IF saveas \in SaveFormats
                 THEN [kind |-> "file", text |-> _authors]
                 ELSE None
    /\ pc' = "done"
    /\ UNCHANGED <<finds, countries, country, ids, start, _authors, batches,
                   fetched>>
    /\ UNCHANGED <<creatorVars, classifierVars, extractorVars, cacheVars>>

NextFetcher ==
    \/ CreateAuthorsByTopicsAndCountries
    \/ FetchAuthorNames
    \/ ExtractAuthors
    \/ SaveAuthors

SpecFetcher == InitFetcher /\ [][NextFetcher]_vars

(***************************************************************************)
(* NCBIExtractor: add_abstract, add_abstracts chunk by chunk, and          *)
(* get_article_ids_for_topics portion by portion.  Pumex                   *)
(* (Code/pumex.py, lines 65-96) downloads its IDs by the same loop.        *)
(***************************************************************************)
InitExtractor ==
    /\ InitPumedoroIdle
    /\ InitFetcherIdle
    /\ InitExtractorIdle
    /\ InitCacheIdle

\* the locals of the methods, as a call that is not theirs finds them
NoAbstractsCall == article_ids' = <<>> /\ chunks' = <<>>

NoDownloadCall ==
    /\ held' = 0
    /\ total_number_of_ids' = 0
    /\ result' = <<>>
    /\ count_ids_downloaded' = 0
    /\ start_index' = 0
    /\ requests' = 0

\* add_abstract(article_id)
AddAbstract ==
    /\ xpc = "idle"
    /\ \E id \in 1..(2 * Len(ArticleKinds)) :
        LET r == add_abstract(_texts, id) IN
            /\ article_id' = id
            /\ _texts' = r.texts
            /\ xraised' = r.raised
    /\ xop' = "add_abstract"
    /\ xpc' = "idle"
    /\ NoAbstractsCall
    /\ NoDownloadCall
    /\ UNCHANGED <<creatorVars, classifierVars, fetcherVars, cacheVars>>

\* add_abstracts(article_ids), lines 139-144, up to the head of the loop
AddAbstracts ==
    /\ xpc = "idle"
    /\ \E id_list \in IdRuns :
        /\ article_ids' = id_list
        /\ chunks' = array_split(id_list, NumberOfChunks(id_list))
    /\ _texts' = <<>>
    /\ xop' = "add_abstracts"
    /\ xraised' = FALSE
    /\ xpc' = "chunks"
    /\ article_id' = 0
    /\ NoDownloadCall
    /\ UNCHANGED <<creatorVars, classifierVars, fetcherVars, cacheVars>>

\* line 145: one pass of the loop of add_abstracts
AddArticlesByIds ==
    /\ xpc = "chunks"
    /\ _texts' = _add_articles_by_ids(Head(chunks))
    /\ chunks' = Tail(chunks)
    /\ xpc' = IF Tail(chunks) = <<>> THEN "idle" ELSE "chunks"
    /\ UNCHANGED <<xop, xraised, article_id, article_ids, held,
                   total_number_of_ids, result, count_ids_downloaded,
                   start_index, requests>>
    /\ UNCHANGED <<creatorVars, classifierVars, fetcherVars, cacheVars>>

\* get_article_ids_for_topics(topics), lines 71-79, up to the head of the
\* loop: the server reports a number of IDs and holds a number of IDs
GetArticleIdsForTopics ==
    /\ xpc = "idle"
    /\ \E reported \in FindCounts, kept \in FindCounts :
        /\ total_number_of_ids' = reported
        /\ held' = kept
        /\ xpc' = IF reported <= 0 THEN "idle" ELSE "download"
    /\ result' = <<>>
    /\ count_ids_downloaded' = 0
    /\ start_index' = 0
    /\ requests' = 0
    /\ xop' = "get_article_ids_for_topics"
    /\ xraised' = FALSE
    /\ article_id' = 0
    /\ NoAbstractsCall
    /\ UNCHANGED <<_texts, creatorVars, classifierVars, fetcherVars, cacheVars>>

\* lines 81-95: one pass of the loop, the server answering with the portion
\* it holds from start_index on; the method returns once the count is reached
DownloadPortion ==
    /\ xpc = "download"
    /\ LET ids_portion ==
               _download_portion_of_request_ids(
                   start_index, NUMBER_OF_IDS_IN_PARTIAL_REQUEST, held)
       IN  /\ result' = result \o ids_portion
           /\ count_ids_downloaded' = count_ids_downloaded + Len(ids_portion)
           /\ start_index' = Len(result \o ids_portion)
           /\ xpc' = IF count_ids_downloaded + Len(ids_portion)
                         < total_number_of_ids
                     THEN "download" ELSE "idle"
    /\ requests' = (requests + 1) % 2
    /\ UNCHANGED <<_texts, xop, xraised, article_id, article_ids, chunks,
                   held, total_number_of_ids>>
    /\ UNCHANGED <<creatorVars, classifierVars, fetcherVars, cacheVars>>

\* lines 264-269: the request fails or its answer cannot be parsed; nothing
\* catches the exception
DownloadRaises ==
    /\ xpc = "download"
    /\ xraised' = TRUE
    /\ xpc' = "idle"
    /\ UNCHANGED <<_texts, xop, article_id, article_ids, chunks, held,
                   total_number_of_ids, result, count_ids_downloaded,
                   start_index, requests>>
    /\ UNCHANGED <<creatorVars, classifierVars, fetcherVars, cacheVars>>

NextExtractor ==
    \/ AddAbstract
    \/ AddAbstracts
    \/ AddArticlesByIds
    \/ GetArticleIdsForTopics
    \/ DownloadPortion
    \/ DownloadRaises

SpecExtractor == InitExtractor /\ [][NextExtractor]_vars

\* a pass of the download loop that is due is executed: the interpreter
\* goes on running the method
SpecExtractorFair == SpecExtractor /\ WF_vars(DownloadPortion)

(***************************************************************************)
(* PMCache: a folder processed and the data frame made of the cache.       *)
(***************************************************************************)
InitCache ==
    /\ InitPumedoroIdle
    /\ InitFetcherIdle
    /\ InitExtractorIdle
    /\ InitCacheIdle

\* process_folder(folder_name) with clear_collections left at True
ProcessFolder ==
    /\ \E files \in CacheFolders :
        LET cache == CacheProcessFiles([given |-> <<>>, family |-> <<>>],
                                       files)
        IN  /\ _given_names' = cache.given
            /\ _family_names' = cache.family
    /\ cop' = "process_folder"
    /\ cache_raised' = FALSE
    /\ frame' = <<>>
    /\ UNCHANGED <<family_text, cleaned>>
    /\ UNCHANGED <<creatorVars, classifierVars, fetcherVars, extractorVars>>

\* create_data_frame(sortby)
CreateDataFrame ==
    /\ \E key \in CacheSortKeys :
        LET fr == CacheTable(_given_names, _family_names) IN
            /\ cache_raised' = fr.raised
            /\ IF fr.raised THEN frame' = <<>>
               ELSE frame' \in sort_values(CacheRows(fr.table),
                                           CacheSortColumn(key))
    /\ cop' = "create_data_frame"
    /\ UNCHANGED <<_given_names, _family_names, family_text, cleaned>>
    /\ UNCHANGED <<creatorVars, classifierVars, fetcherVars, extractorVars>>

NextCache ==
    \/ ProcessFolder
    \/ CreateDataFrame

SpecCache == InitCache /\ [][NextCache]_vars

(***************************************************************************)
(* PMCache._clean_family_name on its own: one argument, the method         *)
(* applied.                                                                *)
(***************************************************************************)
InitClean ==
    /\ InitPumedoroIdle
    /\ InitFetcherIdle
    /\ InitExtractorIdle
    /\ _given_names = <<>>
    /\ _family_names = <<>>
    /\ cop = "__init__"
    /\ cache_raised = FALSE
    /\ frame = <<>>
    /\ family_text \in FamilyTexts
    /\ cleaned = <<>>

\* self._clean_family_name(family_text)
CleanFamilyName ==
    /\ cop' = "_clean_family_name"
    /\ cleaned' = _clean_family_name(family_text)
    /\ UNCHANGED <<_given_names, _family_names, cache_raised, frame,
                   family_text>>
    /\ UNCHANGED <<creatorVars, classifierVars, fetcherVars, extractorVars>>

NextClean == CleanFamilyName

SpecClean == InitClean /\ [][NextClean]_vars

(***************************************************************************)
(* Vocabulary of the properties.                                           *)
(***************************************************************************)
\* a field whose text is missing (None) or empty
MissingOrEmpty(raw) == raw.kind # "str" \/ raw.text = <<>>

\* the generational suffixes, in lower case
GenerationalSuffixes ==
    { <<"j", "r">>, <<"j", "r", ".">>, <<"j", "u", "n", "i", "o", "r">>,
      <<"j", "ú", "n", "i", "o", "r">>, <<"j", "u", "n", ".">>,
      <<"s", "r">>, <<"s", "r", ".">>, <<"s", "e", "n", "i", "o", "r">>,
      <<"s", "e", "n", ".">>, <<"i", "i", "i">>, <<"i", "v">> }

IsSuffixToken(t) == Lower(t) \in GenerationalSuffixes

IsParticleToken(t) ==
    \E k \in DOMAIN NOBILIARITY_PARTICLES : Lower(t) = NOBILIARITY_PARTICLES[k]

\* groups of <uppercase letter><period>, at least one
RECURSIVE IsInitialGroups(_)
IsInitialGroups(t) ==
    /\ Len(t) >= 2
    /\ t[1] \in AsciiUpper
    /\ t[2] = "."
    /\ (Len(t) = 2 \/ IsInitialGroups(SubSeq(t, 3, Len(t))))

IsAbbreviationToken(t) ==
    \/ IsInitialGroups(t)
    \/ \E a, b \in AsciiUpper : t = <<a, ".", "-", b, ".">>

\* a is b with some elements left out
RECURSIVE IsSubseq(_, _)
IsSubseq(a, b) ==
    \/ a = <<>>
    \/ /\ b # <<>>
       /\ IF Head(a) = Head(b)
          THEN IsSubseq(Tail(a), Tail(b))
          ELSE IsSubseq(a, Tail(b))

\* the tokens before the first one that is a nobiliary particle
RECURSIVE BeforeFirstParticle(_)
BeforeFirstParticle(tokens) ==
    IF tokens = <<>> \/ IsParticleToken(Head(tokens)) THEN <<>>
    ELSE <<Head(tokens)>> \o BeforeFirstParticle(Tail(tokens))

\* the tokens that are no generational suffix
RECURSIVE WithoutSuffixTokens(_)
WithoutSuffixTokens(tokens) ==
    IF tokens = <<>> THEN <<>>
    ELSE IF IsSuffixToken(Head(tokens)) THEN WithoutSuffixTokens(Tail(tokens))
    ELSE <<Head(tokens)>> \o WithoutSuffixTokens(Tail(tokens))

OccGiven(dict, name) ==
    IF HasKey(dict, name) THEN dict[KeyIndex(dict, name)].occ_given ELSE 0

OccFamily(dict, name) ==
    IF HasKey(dict, name) THEN dict[KeyIndex(dict, name)].occ_family ELSE 0

IsUpdate(o) == o \in {"update_dictionary", "update_dictionary_from_file"}

\* the files an update call reads
Scanned(o, n) == IF o = "update_dictionary" THEN folder ELSE <<folder[n]>>

IsBadRecord(author) ==
    MissingOrEmpty(author.given) \/ MissingOrEmpty(author.family)

GoodRecord(author) == ~IsBadRecord(author)

\* the files without their bad records
WithoutBadRecords(files) ==
    [i \in DOMAIN files |-> SelectSeq(files[i], GoodRecord)]

\* the files with every missing given-name text read as the empty text
WithDegradedRecords(files) ==
    [i \in DOMAIN files |->
        [j \in DOMAIN files[i] |->
            IF files[i][j].given.kind = "str" THEN files[i][j]
            ELSE [files[i][j] EXCEPT !.given = Str(<<>>)]]]

(***************************************************************************)
(* C1: every name in the dictionary has occ_given >= 0, occ_family >= 0    *)
(* and occ_given + occ_family >= 1, after any sequence of ingests and      *)
(* clears.                                                                 *)
(***************************************************************************)
C1_EveryEntryCounted ==
    \A i \in DOMAIN dictionary :
        /\ dictionary[i].occ_given >= 0
        /\ dictionary[i].occ_family >= 0
        /\ dictionary[i].occ_given + dictionary[i].occ_family >= 1

\* an ingest left entries seen in one role only, of either role
C1_Witness ==
    /\ IsUpdate(op)
    /\ \E i \in DOMAIN dictionary : dictionary[i].occ_given = 0
    /\ \E i \in DOMAIN dictionary : dictionary[i].occ_family = 0

(***************************************************************************)
(* C2: no exception leaves _get_given_names or _get_family_name; for a     *)
(* missing (None) or empty field the given-name classifier returns no      *)
(* token and the family-name classifier returns None or the empty string.  *)
(***************************************************************************)
C2_ClassifiersNeverRaise ==
    /\ ~given_names.raised
    /\ (call = "_get_given_names" /\ MissingOrEmpty(name_string))
           => given_names.items = <<>>
    /\ (call = "_get_family_name" /\ MissingOrEmpty(name_string))
           => family_name \in {None, Str(<<>>)}

(***************************************************************************)
(* C3: a bad record (missing or empty given-name or family-name text)      *)
(* never aborts the scan: no exception leaves the update, and the other    *)
(* records of the file and of the later files are counted exactly as       *)
(* without the bad record (the bad record itself counting nothing, or      *)
(* what its remaining field holds).                                        *)
(***************************************************************************)
C3_BadRecordNeverAborts ==
    [][IsUpdate(op') =>
        LET files == Scanned(op', file_arg') IN
            /\ ~raised'
            /\ \/ dictionary' =
                      IngestFolder(dictionary, WithoutBadRecords(files)).dict
               \/ dictionary' =
                      IngestFolder(dictionary, WithDegradedRecords(files)).dict
      ]_vars

(***************************************************************************)
(* C4: when one field of a record is missing or empty the other field is   *)
(* still processed: the family name of a record without given-name text    *)
(* gains one occ_family, and each given-name token of a record without     *)
(* family-name text gains its occ_given (stated for a file of one record). *)
(***************************************************************************)
C4_OtherFieldStillProcessed ==
    [][(op' = "update_dictionary_from_file" /\ Len(folder[file_arg']) = 1) =>
        LET author == folder[file_arg'][1]
            family == _get_family_name(author.family)
            tokens == _get_given_names(author.given).items
        IN  /\ (MissingOrEmpty(author.given) /\ family.kind = "str"
                    /\ family.text # <<>>)
                   => OccFamily(dictionary', Title(family.text))
                          = OccFamily(dictionary, Title(family.text)) + 1
            /\ (MissingOrEmpty(author.family) /\ author.given.kind = "str")
                   => \A i \in DOMAIN tokens :
                          OccGiven(dictionary', Title(tokens[i]))
                              = OccGiven(dictionary, Title(tokens[i]))
                                + Cardinality({j \in DOMAIN tokens :
                                      Title(tokens[j]) = Title(tokens[i])})
      ]_vars

(***************************************************************************)
(* C5: every token of length 2 in the result of the given-name classifier  *)
(* is "Ng" or an uppercase letter followed by one of a, e, i, o, u, y;     *)
(* a rejected two-character token that follows another rejected one is     *)
(* removed as well.                                                        *)
(***************************************************************************)
C5_TwoCharTokensValid ==
    call = "_get_given_names" =>
        \A i \in DOMAIN given_names.items :
            LET t == given_names.items[i] IN
                Len(t) = 2 =>
                    \/ t = <<"N", "g">>
                    \/ /\ t[1] \in AsciiUpper
                       /\ t[2] \in {"a", "e", "i", "o", "u", "y"}

(***************************************************************************)
(* C6: the nobiliary-particle step returns exactly the tokens strictly     *)
(* before the earliest token that case-insensitively equals a particle:    *)
(* the per-particle loop agrees with one linear pass that finds the first  *)
(* matching position and slices there.                                     *)
(***************************************************************************)
C6_ParticleLoopIsLinearPass ==
    call = "_get_given_names" =>
        given_names.items = BeforeFirstParticle(given_names.two_char)

\* two particles reached the step, the one that comes first in the tokens
\* standing later in NOBILIARITY_PARTICLES, and a token is left before them
C6_Witness ==
    /\ call = "_get_given_names"
    /\ given_names.items # <<>>
    /\ \E i, j \in DOMAIN given_names.two_char :
          /\ i < j
          /\ IsParticleToken(given_names.two_char[i])
          /\ IsParticleToken(given_names.two_char[j])
          /\ Len(given_names.items) = i - 1
          /\ \E k, l \in DOMAIN NOBILIARITY_PARTICLES :
                /\ l < k
                /\ NOBILIARITY_PARTICLES[k] = Lower(given_names.two_char[i])
                /\ NOBILIARITY_PARTICLES[l] = Lower(given_names.two_char[j])

(***************************************************************************)
(* C7: the result of the given-name classifier holds no token that stands  *)
(* at or after the first input token that case-insensitively equals a      *)
(* nobiliary particle, for two-letter particles in any letter case as for  *)
(* the longer ones.                                                        *)
(***************************************************************************)
C7_NothingAfterFirstParticle ==
    (call = "_get_given_names" /\ ~given_names.raised) =>
        IsSubseq(given_names.items, BeforeFirstParticle(given_names.split))

(***************************************************************************)
(* C8: neither the given-name token list nor the space-split family name   *)
(* holds a token that case-insensitively equals a generational suffix.     *)
(***************************************************************************)
C8_NoSuffixTokenSurvives ==
    /\ \A i \in DOMAIN given_names.items :
           ~IsSuffixToken(given_names.items[i])
    /\ family_name.kind = "str" =>
           \A t \in {Split(family_name.text)[i] :
                        i \in DOMAIN Split(family_name.text)} :
               ~IsSuffixToken(t)

\* both classifiers were applied to a string holding a suffix token in a
\* letter case other than upper case, and both kept another token
C8_Witness ==
    /\ call = "_get_family_name"
    /\ name_string.kind = "str"
    /\ \E i \in DOMAIN given_names.split :
           /\ IsSuffixToken(given_names.split[i])
           /\ Upper(given_names.split[i]) # given_names.split[i]
    /\ given_names.items # <<>>
    /\ family_name.kind = "str" /\ family_name.text # <<>>

(***************************************************************************)
(* C9: the result of the given-name classifier holds no token of length 1  *)
(* and no token matching the abbreviation pattern, and the tokens it holds *)
(* stand in their original relative order.                                 *)
(***************************************************************************)
C9_NoInitialNoAbbreviation ==
    call = "_get_given_names" =>
        /\ \A i \in DOMAIN given_names.items :
               /\ Len(given_names.items[i]) # 1
               /\ ~IsAbbreviationToken(given_names.items[i])
        /\ IsSubseq(given_names.items, given_names.split)

\* an initial and an abbreviation were dropped and a token was kept
C9_Witness ==
    /\ call = "_get_given_names"
    /\ \E i \in DOMAIN given_names.split : Len(given_names.split[i]) = 1
    /\ \E i \in DOMAIN given_names.split :
           IsAbbreviationToken(given_names.split[i])
    /\ given_names.items # <<>>

HyphenAttachedSuffix(t) ==
    \E i \in 2..(Len(t) - 1) :
        t[i] = "-" /\ IsSuffixToken(SubSeq(t, i + 1, Len(t)))

\* the part of such a name in front of the hyphen
BeforeHyphen(t) ==
    LET i == CHOOSE j \in 2..(Len(t) - 1) :
                 t[j] = "-" /\ IsSuffixToken(SubSeq(t, j + 1, Len(t)))
    IN SubSeq(t, 1, i - 1)

C12_HyphenAttachedSuffixIgnored ==
    (call = "_get_family_name" /\ name_string.kind = "str") =>
        LET tokens == Split(name_string.text) IN
            /\ (Len(tokens) = 1 /\ HyphenAttachedSuffix(tokens[1])) =>
                   family_name = Str(BeforeHyphen(tokens[1]))
            /\ (/\ Len(tokens) = 2
                /\ ~IsSuffixToken(tokens[1])
                /\ IsSuffixToken(tokens[2])) =>
                   family_name = Str(tokens[1])

\* only space characters
OnlySpaces(s) == \A i \in DOMAIN s : s[i] = " "

\* only whitespace characters
OnlyWhitespace(s) == \A i \in DOMAIN s : s[i] \in Whitespace

(***************************************************************************)
(* C13 as stated: for every raw given-name string that is empty or         *)
(* consists solely of whitespace characters (spaces, tabs, any other       *)
(* whitespace, of any length) the given-name classifier returns the empty  *)
(* sequence.                                                               *)
(***************************************************************************)
C13_WhitespaceGivesNothing ==
    (/\ call = "_get_given_names"
     /\ name_string.kind = "str"
     /\ OnlyWhitespace(name_string.text)) =>
        (~given_names.raised /\ given_names.items = <<>>)

(***************************************************************************)
(* C13 amended: for every raw given-name string that is empty or consists  *)
(* solely of space characters, of any length, the given-name classifier    *)
(* returns the empty sequence.                                             *)
(***************************************************************************)
C13_SpacesGiveNothing ==
    (/\ call = "_get_given_names"
     /\ name_string.kind = "str"
     /\ OnlySpaces(name_string.text)) =>
        (~given_names.raised /\ given_names.items = <<>>)

\* a string of several spaces was classified
C13_Witness ==
    /\ call = "_get_given_names"
    /\ name_string.kind = "str"
    /\ Len(name_string.text) >= 2
    /\ OnlySpaces(name_string.text)
    /\ given_names.items = <<>>

\* the keys of the dictionary
Keys(dict) == {dict[i].name : i \in DOMAIN dict}

\* how often each author occurs in a list of authors
Times(authors) ==
    [a \in Authors |-> Cardinality({i \in DOMAIN authors : authors[i] = a})]

\* what the classifiers return for each author, title-cased.
\* given: the tokens of the given-name classifier (none when it raises);
\* family: the family name (none when the given-name classifier raised
\* before, or when None is returned)
Returned ==
    [a \in Authors |->
        LET g == _get_given_names(a.given)
            f == _get_family_name(a.family)
        IN [given |-> IF g.raised THEN <<>>
                      ELSE [j \in DOMAIN g.items |-> Title(g.items[j])],
            family |-> IF g.raised \/ f = None THEN {}
                       ELSE {Title(f.text)}]]

ReturnedGiven(author) == Returned[author].given

ReturnedFamily(author) == Returned[author].family

\* the names an author is sighted under
SightedNames(author) ==
    {ReturnedGiven(author)[j] : j \in DOMAIN ReturnedGiven(author)}
        \cup ReturnedFamily(author)

\* the sightings of name in the given-name role, times[a] of every author
RECURSIVE GivenSightings(_, _, _)
GivenSightings(S, times, name) ==
    IF S = {} THEN 0
    ELSE LET a == CHOOSE x \in S : TRUE IN
        times[a] * Cardinality({j \in DOMAIN ReturnedGiven(a) :
                                    ReturnedGiven(a)[j] = name})
            + GivenSightings(S \ {a}, times, name)

\* the sightings of name in the family-name role
RECURSIVE FamilySightings(_, _, _)
FamilySightings(S, times, name) ==
    IF S = {} THEN 0
    ELSE LET a == CHOOSE x \in S : TRUE IN
        (IF name \in ReturnedFamily(a) THEN times[a] ELSE 0)
            + FamilySightings(S \ {a}, times, name)

\* the title-cased tokens of the GivenName text of each author that the
\* given-name classifier did not return
Discarded ==
    [a \in Authors |->
        IF a.given.kind # "str" THEN {}
        ELSE {Title(Split(a.given.text)[j]) : j \in DOMAIN Split(a.given.text)}
                 \ {ReturnedGiven(a)[j] : j \in DOMAIN ReturnedGiven(a)}]

\* the authors an update call ingested
Ingested(o, n) == Completed(Flatten(Scanned(o, n)))

C15_NoEmptyKey == ~HasKey(dictionary, <<>>)

(***************************************************************************)
(* C16: a normalized name has at most one entry, shared by both roles and  *)
(* by all case variants of the name; its occ_given and occ_family are the  *)
(* numbers of given-role and family-role sightings since the last clear.   *)
(***************************************************************************)
C16_OneEntryPerName ==
    /\ \A i, j \in DOMAIN dictionary :
           dictionary[i].name = dictionary[j].name => i = j
    /\ \A a \in Authors :
           counted[a] > 0 => SightedNames(a) \subseteq Keys(dictionary)
    /\ \A i \in DOMAIN dictionary :
           /\ dictionary[i].name = Title(dictionary[i].name)
           /\ dictionary[i].occ_given =
                  GivenSightings(Authors, counted, dictionary[i].name)
           /\ dictionary[i].occ_family =
                  FamilySightings(Authors, counted, dictionary[i].name)

\* "martin" was sighted as a given name and "MARTIN" as a family name, and
\* the one entry "Martin" counts both
C16_Witness ==
    /\ counted[[given |-> Str(MartinP), family |-> None]] > 0
    /\ counted[[given |-> Str(<<>>), family |-> Str(MARTIN)]] > 0
    /\ \E i \in DOMAIN dictionary :
           /\ dictionary[i].name = Title(MARTIN)
           /\ dictionary[i].name # MARTIN
           /\ dictionary[i].occ_given >= 1
           /\ dictionary[i].occ_family >= 1

(***************************************************************************)
(* C17: the soundex and metaphone codes of an entry are set when the       *)
(* entry is created and no later ingest changes them: between its          *)
(* creation and the next clear only the two counters of an entry change.   *)
(***************************************************************************)
C17_CodesSetAtCreation ==
    [][IsUpdate(op') =>
        /\ \A i \in DOMAIN dictionary :
               /\ i \in DOMAIN dictionary'
               /\ dictionary'[i] =
                      [dictionary[i] EXCEPT
                          !.occ_given = dictionary'[i].occ_given,
                          !.occ_family = dictionary'[i].occ_family]
        /\ \A i \in DOMAIN dictionary' \ DOMAIN dictionary :
               /\ dictionary'[i].soundex \in
                      {EmptyCode, [encoder |-> "soundex", size |-> SoundexSize,
                                   of |-> dictionary'[i].name]}
               /\ dictionary'[i].metaphone \in
                      {EmptyCode, [encoder |-> "metaphone", size |-> 0,
                                   of |-> dictionary'[i].name]}
      ]_vars

\* an entry with both codes was counted again after its creation
C17_Witness ==
    /\ IsUpdate(op)
    /\ \E i \in DOMAIN dictionary :
           /\ dictionary[i].occ_given >= 2
           /\ dictionary[i].occ_family >= 1
           /\ dictionary[i].soundex # EmptyCode
           /\ dictionary[i].metaphone # EmptyCode

(***************************************************************************)
(* C18: when a phonetic encoder fails for a name, the ingestion is not     *)
(* aborted: the entry is created with the correct counters and the empty   *)
(* string for the code that failed, and the other code is still computed   *)
(* (soundex and metaphone independently).                                  *)
(***************************************************************************)
C18_EncoderFailureKeepsEntry ==
    /\ (IsUpdate(op) /\ raised) =>
           \E i \in DOMAIN Flatten(Scanned(op, file_arg)) :
               Flatten(Scanned(op, file_arg))[i].given.kind # "str"
    /\ \A a \in Authors : \A name \in SightedNames(a) :
           (counted[a] > 0 /\ (SoundexRaises(name) \/ MetaphoneRaises(name)))
               => /\ HasKey(dictionary, name)
                  /\ OccGiven(dictionary, name)
                         = GivenSightings(Authors, counted, name)
                  /\ OccFamily(dictionary, name)
                         = FamilySightings(Authors, counted, name)
    /\ \A i \in DOMAIN dictionary :
           /\ dictionary[i].soundex =
                  IF SoundexRaises(dictionary[i].name) THEN EmptyCode
                  ELSE [encoder |-> "soundex", size |-> SoundexSize,
                        of |-> dictionary[i].name]
           /\ dictionary[i].metaphone =
                  IF MetaphoneRaises(dictionary[i].name) THEN EmptyCode
                  ELSE [encoder |-> "metaphone", size |-> 0,
                        of |-> dictionary[i].name]

\* an ingest ended without exception and left one entry whose soundex
\* failed and one whose metaphone failed, each with its other code
C18_Witness ==
    /\ IsUpdate(op)
    /\ ~raised
    /\ \E i \in DOMAIN dictionary :
           /\ SoundexRaises(dictionary[i].name)
           /\ dictionary[i].soundex = EmptyCode
           /\ dictionary[i].metaphone # EmptyCode
           /\ dictionary[i].occ_given >= 1
    /\ \E i \in DOMAIN dictionary :
           /\ MetaphoneRaises(dictionary[i].name)
           /\ dictionary[i].metaphone = EmptyCode
           /\ dictionary[i].soundex # EmptyCode
           /\ dictionary[i].occ_family >= 1

(***************************************************************************)
(* C19: between two calls of clear_dictionary the dictionary is            *)
(* append-only: no key disappears and no count decreases; only             *)
(* clear_dictionary removes entries, and it removes all of them.           *)
(***************************************************************************)
C19_AppendOnlyBetweenClears ==
    [][/\ op' # "clear_dictionary" =>
              /\ Keys(dictionary) \subseteq Keys(dictionary')
              /\ \A name \in Keys(dictionary) :
                     /\ OccGiven(dictionary', name) >= OccGiven(dictionary, name)
                     /\ OccFamily(dictionary', name)
                            >= OccFamily(dictionary, name)
       /\ op' = "clear_dictionary" => dictionary' = <<>>
      ]_vars

\* a name counted in both roles: the entry grew after it was created
C19_Witness ==
    /\ IsUpdate(op)
    /\ \E i \in DOMAIN dictionary :
           dictionary[i].occ_given >= 1 /\ dictionary[i].occ_family >= 2

(***************************************************************************)
(* C20: after any sequence of ingests, clear_dictionary followed by        *)
(* get_dataframe with no sort key returns an empty row set, and an ingest  *)
(* that follows starts all counts from zero.                               *)
(***************************************************************************)
C20_ClearThenFrameIsEmpty ==
    [][/\ (op = "clear_dictionary" /\ op' = "get_dataframe" /\ sortby' = "")
              => df' = <<>>
       /\ (/\ IsUpdate(op')
           /\ \/ op = "clear_dictionary"
              \/ op = "get_dataframe" /\ cleared > 0) =>
              LET times == Times(Ingested(op', file_arg')) IN
                  \A i \in DOMAIN dictionary' :
                      /\ dictionary'[i].occ_given =
                             GivenSightings(Authors, times, dictionary'[i].name)
                      /\ dictionary'[i].occ_family =
                             FamilySightings(Authors, times, dictionary'[i].name)
      ]_vars

\* entries were ingested and removed by clear_dictionary, and the data
\* frame read next without sort key has no row
C20_Witness ==
    /\ op = "get_dataframe"
    /\ sortby = ""
    /\ cleared >= 2
    /\ df = <<>>

(***************************************************************************)
(* C21: get_dataframe returns exactly one row per dictionary entry, in     *)
(* non-increasing occ_given for 'given', non-increasing occ_family for     *)
(* 'family', ascending name for 'name' and in the insertion order of the   *)
(* dictionary for no sort key; the call leaves the dictionary unchanged.   *)
(***************************************************************************)
C21_FrameRowsAndOrder ==
    [][op' = "get_dataframe" =>
        /\ dictionary' = dictionary
        /\ Len(df') = Len(dictionary)
        /\ \A i \in DOMAIN dictionary :
               \E j \in DOMAIN df' :
                   /\ df'[j].index = i - 1
                   /\ df'[j].name = dictionary[i].name
                   /\ df'[j].occ_given = dictionary[i].occ_given
                   /\ df'[j].occ_family = dictionary[i].occ_family
                   /\ df'[j].soundex = dictionary[i].soundex
                   /\ df'[j].metaphone = dictionary[i].metaphone
        /\ \A i, j \in DOMAIN df' :
               i < j =>
                   /\ sortby' = "given" => df'[i].occ_given >= df'[j].occ_given
                   /\ sortby' = "family" =>
                          df'[i].occ_family >= df'[j].occ_family
                   /\ sortby' = "name" => StrLess(df'[i].name, df'[j].name)
                   /\ sortby' = "" => df'[i].index < df'[j].index
      ]_vars

\* a frame sorted by 'given' whose rows left the insertion order
C21_Witness ==
    /\ op = "get_dataframe"
    /\ sortby = "given"
    /\ Len(df) >= 3
    /\ df[1].index > 0
    /\ \E i \in DOMAIN df : df[i].occ_given > df[Len(df)].occ_given

\* a list in reverse order
Reverse(list) == [i \in DOMAIN list |-> list[Len(list) + 1 - i]]

\* the sum over the shards of the occ_given (occ_family) that name has in
\* the dictionary filled from the shard alone
RECURSIVE MergedGiven(_, _)
MergedGiven(shards, name) ==
    IF shards = <<>> THEN 0
    ELSE OccGiven(IngestFile(<<>>, Head(shards)).dict, name)
             + MergedGiven(Tail(shards), name)

RECURSIVE MergedFamily(_, _)
MergedFamily(shards, name) ==
    IF shards = <<>> THEN 0
    ELSE OccFamily(IngestFile(<<>>, Head(shards)).dict, name)
             + MergedFamily(Tail(shards), name)

\* the keys of the dictionaries filled from the shards alone
MergedKeys(shards) ==
    UNION {Keys(IngestFile(<<>>, shards[n]).dict) : n \in DOMAIN shards}

(***************************************************************************)
(* C22: ingest is a pure counting operation: for the corpus held by the    *)
(* files of the folder, the dictionaries filled from each file alone,      *)
(* merged by summing occ_given and occ_family per key, have the keys and   *)
(* counts of the dictionary filled from the whole corpus, in whatever      *)
(* order the records come; ingesting the corpus twice doubles every        *)
(* count.                                                                  *)
(***************************************************************************)
C22_ShardsMergeToWhole ==
    LET corpus == Flatten(folder)
        whole == IngestFile(<<>>, corpus).dict
        reversed == IngestFile(<<>>, Reverse(corpus)).dict
        twice == IngestFile(whole, corpus).dict
    IN  /\ MergedKeys(folder) = Keys(whole)
        /\ Keys(reversed) = Keys(whole)
        /\ Keys(twice) = Keys(whole)
        /\ \A name \in Keys(whole) \cup MergedKeys(folder) \cup Keys(reversed) :
               /\ MergedGiven(folder, name) = OccGiven(whole, name)
               /\ MergedFamily(folder, name) = OccFamily(whole, name)
               /\ OccGiven(reversed, name) = OccGiven(whole, name)
               /\ OccFamily(reversed, name) = OccFamily(whole, name)
               /\ OccGiven(twice, name) = 2 * OccGiven(whole, name)
               /\ OccFamily(twice, name) = 2 * OccFamily(whole, name)

\* C23: create_authors_by_topics_and_countries builds a cumulative list: when
\* the loop over the countries is over, self._authors holds the authors
\* fetched for every country of the list, and so does the file it saves
C23_CumulativeList ==
    pc = "done" =>
        /\ _authors = fetched
        /\ saved # None => saved.text = fetched

\* C28: fetch_author_names passes every fetched article ID to
\* _extract_authors in exactly one batch, in order, no batch holding more
\* than 200 IDs and none being empty (also for 0 IDs and for an exact
\* multiple of 200), and the loop stops once the IDs are used up
C28_EveryIdInOneBatch ==
    /\ \A i \in DOMAIN batches :
           /\ Len(batches[i]) <= DEFAULT_SIZE_OF_EXTRACTION_PORTION
           /\ Len(batches[i]) > 0
    /\ Flatten(batches) = Slice(ids, 0, start)
    /\ pc # "while" => Flatten(batches) = ids
    /\ start <= Len(ids) + DEFAULT_SIZE_OF_EXTRACTION_PORTION

\* C24: after add_abstracts(article_ids) the text dictionary holds the
\* abstract of every article of article_ids that has an abstract text,
\* whatever the number of chunks the ID list was split into
C24_AllChunksKept ==
    (xop = "add_abstracts" /\ xpc = "idle") =>
        \A i \in DOMAIN article_ids :
            KindOf(article_ids[i]) = "text" =>
                /\ article_ids[i] \in DOMAIN _texts
                /\ _texts[article_ids[i]] = PyStr(AbstractOf(article_ids[i]))

\* C25: add_abstract adds a text item only if the retrieved abstract is
\* neither None nor empty and the ID has no entry yet, and then it stores
\* the abstract text under the article ID; in every other case the text
\* dictionary is unchanged
C25_AddAbstractStoresText ==
    [][xop' = "add_abstract" =>
          IF /\ KindOf(article_id') = "text"
             /\ article_id' \notin DOMAIN _texts
          THEN _texts' = SetItem(_texts, article_id',
                                 PyStr(AbstractOf(article_id')))
          ELSE _texts' = _texts]_vars

\* C27: the ID-download loop terminates for every server behaviour, also
\* when the server reports a count and delivers fewer IDs; on return the
\* result holds every delivered ID once, in request order
C27_DownloadTerminates ==
    /\ [](xpc = "download" =>
             result = Slice([i \in 1..held |-> i], 0, Len(result)))
    /\ [](( /\ xop = "get_article_ids_for_topics"
            /\ xpc = "idle"
            /\ ~xraised
            /\ total_number_of_ids > 0 ) =>
             /\ result = Slice([i \in 1..held |-> i], 0, Len(result))
             /\ Len(result) >= total_number_of_ids)
    /\ (xpc = "download") ~> (xpc = "idle")

\* C26: _clean_family_name cleans the family name from suffixes: no
\* space-delimited token of the result is one of the SUFFIXES in any
\* letter case, and all other tokens are kept in order
C26_NoSuffixInCleanedName ==
    cop = "_clean_family_name" =>
        /\ \A i \in DOMAIN Split(cleaned) :
               ~InList(Lower(Split(cleaned)[i]), SUFFIXES)
        /\ cleaned = Join(SelectSeq(Split(family_text),
                           LAMBDA cell : ~InList(Lower(cell), SUFFIXES)))

\* C30: in create_data_frame every row's soundex and metaphone are the
\* codes of the row's own name, the empty code where the encoder fails for
\* the name, and the call does not raise
C30_RowCodesAreOwn ==
    cop = "create_data_frame" =>
        /\ ~cache_raised
        /\ \A i \in DOMAIN frame :
               /\ frame[i].soundex = _get_soundex(frame[i].name)
               /\ frame[i].metaphone = _get_metaphone(frame[i].name)

\* C29: the given-name classifier is idempotent: the tokens it returns,
\* joined with single spaces and classified again, come back as they are
C29_SecondPassRemovesNothing ==
    (call = "_get_given_names" /\ ~given_names.raised) =>
        LET again == _get_given_names(Str(Join(given_names.items))) IN
            /\ ~again.raised
            /\ again.items = given_names.items

====
